---------------------------- MODULE Spec2Model ----------------------------
(***************************************************************************)
(* Model of the sorting library: bubble_sort.py (bubble_sort,              *)
(* bubble_sort_with_steps) and merge_sort.py (merge, merge_sort,           *)
(* merge_sort_with_steps).                                                 *)
(*                                                                         *)
(* Python lists are objects with identity: `heap` is the sequence of the   *)
(* live list objects, a list reference is an index into it.  The caller's  *)
(* list `arr` is the object at ArrRef.  Elements are records               *)
(* [key, tag]: every comparison of the code reads the key only, the tag    *)
(* is the element's position in the caller's list.                         *)
(*                                                                         *)
(* The four functions are run one at a time (the program is single         *)
(* threaded), each at most once on the same caller's list, in any order.   *)
(* The bubble sorts run loop step by loop step; the merge sorts run on an   *)
(* explicit stack of frames, one frame per recursive call.  print() is     *)
(* modelled by appending the printed data to `out`.                        *)
(***************************************************************************)
EXTENDS Integers, Sequences, FiniteSets, TLC

MaxLen == 4
MaxKey == 2

Keys == 1..MaxKey

ArrRef == 1

Fns == {"bubble_sort", "bubble_sort_with_steps",
        "merge_sort", "merge_sort_with_steps"}

VARIABLES
    input,       \* content of the caller's list before any call
    reverse,     \* the `reverse` argument
    heap,        \* the list objects: heap[r] is the content of list r
    ret,         \* ret[f]: what the call of f returned, once it has
    fn,          \* the function being executed, or "idle"
    pc,          \* position inside bubble_sort / bubble_sort_with_steps
    sorted_arr,  \* reference held by the local `sorted_arr`
    n,           \* local `n`
    i,           \* local `i` of the outer loop
    j,           \* local `j` of the inner loop
    swapped,     \* local `swapped`
    steps,       \* local `steps` of bubble_sort_with_steps
    out,         \* what the call in progress has printed so far
    stack        \* frames of merge_sort / merge_sort_with_steps, top last

vars == <<input, reverse, heap, ret, fn, pc, sorted_arr, n, i, j, swapped,
          steps, out, stack>>

----------------------------------------------------------------------------
(* Inputs *)

Tagged(s) == [p \in 1..Len(s) |-> [key |-> s[p], tag |-> p]]

Inputs == {Tagged(s) : s \in UNION {[1..m -> Keys] : m \in 0..MaxLen}}

NoRet == [done |-> FALSE, ref |-> 0, list |-> <<>>, steps |-> 0, out |-> <<>>]

----------------------------------------------------------------------------
(* List primitives *)

\* A copy that hands back the very same object.
ListCopyAlias(h, r) == [heap |-> h, ref |-> r]

\* list.copy(): a new list object with the same content.
ListCopy(h, r) == [heap |-> Append(h, h[r]), ref |-> Len(h) + 1]

\* arr[lo:hi] with 0-based, half-open Python bounds: a new list object.
ListSlice(h, r, lo, hi) ==
    [heap |-> Append(h, SubSeq(h[r], lo + 1, hi)), ref |-> Len(h) + 1]

\* A swap that forgets the second assignment.
SwapClobber(s, p) == [s EXCEPT ![p] = s[p + 1]]

\* sorted_arr[j], sorted_arr[j + 1] = sorted_arr[j + 1], sorted_arr[j]
\* (p is the 1-based position of sorted_arr[j]).
Swap(s, p) == [s EXCEPT ![p] = s[p + 1], ![p + 1] = s[p]]

----------------------------------------------------------------------------
(* bubble_sort *)

\* An exchange test that also exchanges equal neighbours.
BubbleOutOfOrderEq(a, b, rev) ==
    IF rev THEN a.key <= b.key ELSE a.key >= b.key

\* The test deciding an exchange of the neighbours a, b.
BubbleOutOfOrder(a, b, rev) ==
    IF rev THEN a.key < b.key ELSE a.key > b.key

\* An inner loop that stops one pair short.
InnerBoundShort(len, pass) == len - pass - 2

\* range(0, n - i - 1): the exclusive upper bound of j.
InnerBound(len, pass) == len - pass - 1

BubbleSort_Call ==
    /\ fn = "idle"
    /\ ~ret["bubble_sort"].done
    /\ LET c == ListCopy(heap, ArrRef) IN
         /\ heap' = c.heap
         /\ sorted_arr' = c.ref
         /\ n' = Len(c.heap[c.ref])
    /\ fn' = "bubble_sort"
    /\ pc' = "outer"
    /\ i' = 0
    /\ UNCHANGED <<input, reverse, ret, j, swapped, steps, out, stack>>

BubbleSort_Outer ==
    /\ fn = "bubble_sort"
    /\ pc = "outer"
    /\ IF i < n
         THEN /\ swapped' = FALSE
              /\ j' = 0
              /\ pc' = "inner"
         ELSE /\ pc' = "return"
              /\ UNCHANGED <<swapped, j>>
    /\ UNCHANGED <<input, reverse, heap, ret, fn, sorted_arr, n, i, steps,
                   out, stack>>

BubbleSort_Inner ==
    /\ fn = "bubble_sort"
    /\ pc = "inner"
    /\ IF j < InnerBound(n, i)
         THEN LET s == heap[sorted_arr] IN
              /\ IF BubbleOutOfOrder(s[j + 1], s[j + 2], reverse)
                   THEN /\ heap' = [heap EXCEPT ![sorted_arr] = Swap(s, j + 1)]
                        /\ swapped' = TRUE
                   ELSE UNCHANGED <<heap, swapped>>
              /\ j' = j + 1
              /\ pc' = pc
         ELSE /\ pc' = "check"
              /\ UNCHANGED <<heap, swapped, j>>
    /\ UNCHANGED <<input, reverse, ret, fn, sorted_arr, n, i, steps, out,
                   stack>>

BubbleSort_Check ==
    /\ fn = "bubble_sort"
    /\ pc = "check"
    /\ IF ~swapped
         THEN /\ pc' = "return"
              /\ i' = i
         ELSE /\ i' = i + 1
              /\ pc' = "outer"
    /\ UNCHANGED <<input, reverse, heap, ret, fn, sorted_arr, n, j, swapped,
                   steps, out, stack>>

BubbleSort_Return ==
    /\ fn = "bubble_sort"
    /\ pc = "return"
    /\ ret' = [ret EXCEPT !["bubble_sort"] =
                 [done |-> TRUE, ref |-> sorted_arr, list |-> heap[sorted_arr],
                  steps |-> 0, out |-> <<>>]]
    /\ heap' = <<heap[ArrRef]>>
    /\ fn' = "idle"
    /\ pc' = "none"
    /\ sorted_arr' = 0
    /\ n' = 0
    /\ i' = 0
    /\ j' = 0
    /\ swapped' = FALSE
    /\ UNCHANGED <<input, reverse, steps, out, stack>>

----------------------------------------------------------------------------
(* bubble_sort_with_steps *)

\* An exchange test that ignores the direction.
BubbleStepsOutOfOrderAsc(a, b, rev) == a.key > b.key

\* The test deciding an exchange of the neighbours a, b.
BubbleStepsOutOfOrder(a, b, rev) ==
    IF rev THEN a.key < b.key ELSE a.key > b.key

\* range(0, n - i - 1): the exclusive upper bound of j.
StepsInnerBound(len, pass) == len - pass - 1

\* A counter that is only advanced by an exchange.
StepsStuck(k) == k

\* steps += 1
StepsNext(k) == k + 1

\* print(f"  Шаг {steps}: Обмен {sorted_arr[j + 1]} и {sorted_arr[j]} -> {sorted_arr}")
\* evaluated after the exchange; p is the 1-based position of sorted_arr[j].
SwapLine(k, s, p) ==
    [kind |-> "swap", step |-> k, a |-> s[p + 1], b |-> s[p], list |-> s]

BubbleSortWithSteps_Call ==
    /\ fn = "idle"
    /\ ~ret["bubble_sort_with_steps"].done
    /\ LET c == ListCopy(heap, ArrRef) IN
         /\ heap' = c.heap
         /\ sorted_arr' = c.ref
         /\ n' = Len(c.heap[c.ref])
         /\ out' = <<[kind |-> "initial", list |-> c.heap[c.ref]],
                     [kind |-> "rule"]>>
    /\ steps' = 0
    /\ fn' = "bubble_sort_with_steps"
    /\ pc' = "outer"
    /\ i' = 0
    /\ UNCHANGED <<input, reverse, ret, j, swapped, stack>>

BubbleSortWithSteps_Outer ==
    /\ fn = "bubble_sort_with_steps"
    /\ pc = "outer"
    /\ IF i < n
         THEN /\ swapped' = FALSE
              /\ out' = Append(out, [kind |-> "pass", pass |-> i + 1])
              /\ j' = 0
              /\ pc' = "inner"
         ELSE /\ pc' = "return"
              /\ UNCHANGED <<swapped, out, j>>
    /\ UNCHANGED <<input, reverse, heap, ret, fn, sorted_arr, n, i, steps,
                   stack>>

BubbleSortWithSteps_Inner ==
    /\ fn = "bubble_sort_with_steps"
    /\ pc = "inner"
    /\ IF j < StepsInnerBound(n, i)
         THEN LET s == heap[sorted_arr] IN
              /\ steps' = StepsNext(steps)
              /\ IF BubbleStepsOutOfOrder(s[j + 1], s[j + 2], reverse)
                   THEN /\ heap' = [heap EXCEPT ![sorted_arr] = Swap(s, j + 1)]
                        /\ swapped' = TRUE
                        /\ out' = Append(out,
                                     SwapLine(steps', heap'[sorted_arr], j + 1))
                   ELSE UNCHANGED <<heap, swapped, out>>
              /\ j' = j + 1
              /\ pc' = pc
         ELSE /\ pc' = "check"
              /\ UNCHANGED <<heap, swapped, steps, out, j>>
    /\ UNCHANGED <<input, reverse, ret, fn, sorted_arr, n, i, stack>>

BubbleSortWithSteps_Check ==
    /\ fn = "bubble_sort_with_steps"
    /\ pc = "check"
    /\ IF ~swapped
         THEN /\ out' = Append(out, [kind |-> "no_swaps"])
              /\ pc' = "return"
              /\ i' = i
         ELSE /\ out' = Append(out, [kind |-> "blank"])
              /\ i' = i + 1
              /\ pc' = "outer"
    /\ UNCHANGED <<input, reverse, heap, ret, fn, sorted_arr, n, j, swapped,
                   steps, stack>>

BubbleSortWithSteps_Return ==
    /\ fn = "bubble_sort_with_steps"
    /\ pc = "return"
    /\ ret' = [ret EXCEPT !["bubble_sort_with_steps"] =
                 [done |-> TRUE, ref |-> sorted_arr, list |-> heap[sorted_arr],
                  steps |-> steps,
                  out |-> out \o <<[kind |-> "rule"],
                                   [kind |-> "result", list |-> heap[sorted_arr]],
                                   [kind |-> "total", steps |-> steps]>>]]
    /\ heap' = <<heap[ArrRef]>>
    /\ fn' = "idle"
    /\ pc' = "none"
    /\ sorted_arr' = 0
    /\ n' = 0
    /\ i' = 0
    /\ j' = 0
    /\ swapped' = FALSE
    /\ steps' = 0
    /\ out' = <<>>
    /\ UNCHANGED <<input, reverse, stack>>

----------------------------------------------------------------------------
(* merge *)

\* A head test that sends ties to the right half.
MergeTakesLeftStrict(a, b, rev) ==
    IF rev THEN a.key > b.key ELSE a.key < b.key

\* The test deciding that the head of `left` is appended, not that of `right`.
MergeTakesLeft(a, b, rev) ==
    IF rev THEN a.key >= b.key ELSE a.key <= b.key

\* The three loops of merge; li and rj are the 1-based read cursors.
RECURSIVE MergeLoop(_, _, _, _, _, _)
MergeLoop(left, right, rev, li, rj, result) ==
    IF li <= Len(left) /\ rj <= Len(right)
      THEN IF MergeTakesLeft(left[li], right[rj], rev)
             THEN MergeLoop(left, right, rev, li + 1, rj,
                            Append(result, left[li]))
             ELSE MergeLoop(left, right, rev, li, rj + 1,
                            Append(result, right[rj]))
      ELSE IF li <= Len(left)
             THEN MergeLoop(left, right, rev, li + 1, rj,
                            Append(result, left[li]))
             ELSE IF rj <= Len(right)
                    THEN MergeLoop(left, right, rev, li, rj + 1,
                                   Append(result, right[rj]))
                    ELSE result

\* A merge that drops what is left of the right half.
RECURSIVE MergeDropTail(_, _, _)
MergeDropTail(left, right, rev) ==
    IF left = <<>> THEN <<>>
    ELSE IF right = <<>> THEN left
    ELSE IF MergeTakesLeft(Head(left), Head(right), rev)
           THEN <<Head(left)>> \o MergeDropTail(Tail(left), right, rev)
           ELSE <<Head(right)>> \o MergeDropTail(left, Tail(right), rev)

\* merge(left, right, reverse): the content of the new list it returns.
Merge(left, right, rev) == MergeLoop(left, right, rev, 1, 1, <<>>)

----------------------------------------------------------------------------
(* merge_sort and merge_sort_with_steps: the frames *)

\* The frame of a call on the list `r` at recursion depth `d`.
Frame(r, d) ==
    [arr |-> r, pc |-> "entry", depth |-> d, left |-> 0, right |-> 0,
     left_sorted |-> 0, right_sorted |-> 0, left_ops |-> 0, right_ops |-> 0]

Top == stack[Len(stack)]

SetTop(stk, f) == [stk EXCEPT ![Len(stk)] = f]

\* The caller's frame once the call it waits for has returned (r, ops).
Resume(f, r, ops) ==
    IF f.pc = "wait_left"
      THEN [f EXCEPT !.left_sorted = r, !.left_ops = ops, !.pc = "call_right"]
      ELSE [f EXCEPT !.right_sorted = r, !.right_ops = ops, !.pc = "merge"]

\* `return r, ops` of the top frame of the call of g, with h the heap and
\* printed the output at that moment.  The outermost call hands its result
\* to the caller; the lists only the call referred to are then garbage.
Return(g, h, r, ops, printed) ==
    IF Len(stack) = 1
      THEN /\ ret' = [ret EXCEPT ![g] =
                        [done |-> TRUE, ref |-> r, list |-> h[r],
                         steps |-> ops, out |-> printed]]
           /\ heap' = <<h[ArrRef]>>
           /\ stack' = <<>>
           /\ fn' = "idle"
           /\ out' = <<>>
      ELSE /\ heap' = h
           /\ stack' = SetTop(SubSeq(stack, 1, Len(stack) - 1),
                              Resume(stack[Len(stack) - 1], r, ops))
           /\ out' = printed
           /\ UNCHANGED <<ret, fn>>

----------------------------------------------------------------------------
(* merge_sort *)

MergeSort_Call ==
    /\ fn = "idle"
    /\ ~ret["merge_sort"].done
    /\ fn' = "merge_sort"
    /\ stack' = <<Frame(ArrRef, 0)>>
    /\ UNCHANGED <<input, reverse, heap, ret, pc, sorted_arr, n, i, j,
                   swapped, steps, out>>

\* if len(arr) <= 1: return arr.copy()
MergeSort_Base ==
    /\ fn = "merge_sort"
    /\ Top.pc = "entry"
    /\ Len(heap[Top.arr]) <= 1
    /\ LET c == ListCopy(heap, Top.arr) IN
         Return("merge_sort", c.heap, c.ref, 0, out)
    /\ UNCHANGED <<input, reverse, pc, sorted_arr, n, i, j, swapped, steps>>

\* mid, left, right, and the call merge_sort(left, reverse)
MergeSort_Split ==
    /\ fn = "merge_sort"
    /\ Top.pc = "entry"
    /\ Len(heap[Top.arr]) > 1
    /\ LET len == Len(heap[Top.arr])
           mid == len \div 2
           l == ListSlice(heap, Top.arr, 0, mid)
           r == ListSlice(l.heap, Top.arr, mid, len)
       IN  /\ heap' = r.heap
           /\ stack' = Append(
                 SetTop(stack, [Top EXCEPT !.left = l.ref, !.right = r.ref,
                                           !.pc = "wait_left"]),
                 Frame(l.ref, Top.depth + 1))
    /\ UNCHANGED <<input, reverse, ret, fn, pc, sorted_arr, n, i, j, swapped,
                   steps, out>>

\* the call merge_sort(right, reverse)
MergeSort_CallRight ==
    /\ fn = "merge_sort"
    /\ Top.pc = "call_right"
    /\ stack' = Append(SetTop(stack, [Top EXCEPT !.pc = "wait_right"]),
                       Frame(Top.right, Top.depth + 1))
    /\ UNCHANGED <<input, reverse, heap, ret, fn, pc, sorted_arr, n, i, j,
                   swapped, steps, out>>

\* return merge(left_sorted, right_sorted, reverse)
MergeSort_Merge ==
    /\ fn = "merge_sort"
    /\ Top.pc = "merge"
    /\ LET merged == Merge(heap[Top.left_sorted], heap[Top.right_sorted],
                           reverse)
       IN  Return("merge_sort", Append(heap, merged), Len(heap) + 1, 0, out)
    /\ UNCHANGED <<input, reverse, pc, sorted_arr, n, i, j, swapped, steps>>

----------------------------------------------------------------------------
(* merge_sort_with_steps *)

\* A charge that leaves out the last placement.
MergeOpsLessOne(left, right) == Len(left) + Len(right) - 1

\* A charge for the comparisons only: the placements made while both halves
\* still have a head (the remainder is appended without comparing).
RECURSIVE MergeOpsCompared(_, _)
MergeOpsCompared(left, right) ==
    IF left = <<>> \/ right = <<>> THEN 0
    ELSE IF MergeTakesLeft(Head(left), Head(right), reverse)
           THEN 1 + MergeOpsCompared(Tail(left), right)
           ELSE 1 + MergeOpsCompared(left, Tail(right))

\* merge_ops = len(left_sorted) + len(right_sorted)
MergeOps(left, right) == Len(left) + Len(right)

\* print(f"{indent}Сортировка: {arr}")
SortLine(d, s) == [kind |-> "sort", depth |-> d, list |-> s]

MergeSortWithSteps_Call ==
    /\ fn = "idle"
    /\ ~ret["merge_sort_with_steps"].done
    /\ fn' = "merge_sort_with_steps"
    /\ stack' = <<Frame(ArrRef, 0)>>
    /\ out' = <<SortLine(0, heap[ArrRef])>>
    /\ UNCHANGED <<input, reverse, heap, ret, pc, sorted_arr, n, i, j,
                   swapped, steps>>

\* if len(arr) <= 1: print(...); return arr.copy(), 0
MergeSortWithSteps_Base ==
    /\ fn = "merge_sort_with_steps"
    /\ Top.pc = "entry"
    /\ Len(heap[Top.arr]) <= 1
    /\ LET c == ListCopy(heap, Top.arr) IN
         Return("merge_sort_with_steps", c.heap, c.ref, 0,
                Append(out, [kind |-> "base", depth |-> Top.depth,
                             list |-> heap[Top.arr]]))
    /\ UNCHANGED <<input, reverse, pc, sorted_arr, n, i, j, swapped, steps>>

\* mid, left, right, print(...), and the call
\* merge_sort_with_steps(left, reverse, depth + 1), which prints on entry
MergeSortWithSteps_Split ==
    /\ fn = "merge_sort_with_steps"
    /\ Top.pc = "entry"
    /\ Len(heap[Top.arr]) > 1
    /\ LET len == Len(heap[Top.arr])
           mid == len \div 2
           l == ListSlice(heap, Top.arr, 0, mid)
           r == ListSlice(l.heap, Top.arr, mid, len)
       IN  /\ heap' = r.heap
           /\ out' = out \o <<[kind |-> "split", depth |-> Top.depth,
                               left |-> r.heap[l.ref], right |-> r.heap[r.ref]],
                              SortLine(Top.depth + 1, r.heap[l.ref])>>
           /\ stack' = Append(
                 SetTop(stack, [Top EXCEPT !.left = l.ref, !.right = r.ref,
                                           !.pc = "wait_left"]),
                 Frame(l.ref, Top.depth + 1))
    /\ UNCHANGED <<input, reverse, ret, fn, pc, sorted_arr, n, i, j, swapped,
                   steps>>

\* the call merge_sort_with_steps(right, reverse, depth + 1)
MergeSortWithSteps_CallRight ==
    /\ fn = "merge_sort_with_steps"
    /\ Top.pc = "call_right"
    /\ out' = Append(out, SortLine(Top.depth + 1, heap[Top.right]))
    /\ stack' = Append(SetTop(stack, [Top EXCEPT !.pc = "wait_right"]),
                       Frame(Top.right, Top.depth + 1))
    /\ UNCHANGED <<input, reverse, heap, ret, fn, pc, sorted_arr, n, i, j,
                   swapped, steps>>

\* merged, merge_ops, the two prints, total_ops, return merged, total_ops
MergeSortWithSteps_Merge ==
    /\ fn = "merge_sort_with_steps"
    /\ Top.pc = "merge"
    /\ LET ls == heap[Top.left_sorted]
           rs == heap[Top.right_sorted]
           merged == Merge(ls, rs, reverse)
           merge_ops == MergeOps(ls, rs)
           total_ops == Top.left_ops + Top.right_ops + merge_ops
       IN  Return("merge_sort_with_steps", Append(heap, merged), Len(heap) + 1,
                  total_ops,
                  out \o <<[kind |-> "merge", depth |-> Top.depth,
                            left |-> ls, right |-> rs, list |-> merged],
                           [kind |-> "result", depth |-> Top.depth,
                            list |-> merged]>>)
    /\ UNCHANGED <<input, reverse, pc, sorted_arr, n, i, j, swapped, steps>>

----------------------------------------------------------------------------

Init ==
    /\ input \in Inputs
    /\ reverse \in BOOLEAN
    /\ heap = <<input>>
    /\ ret = [f \in Fns |-> NoRet]
    /\ fn = "idle"
    /\ pc = "none"
    /\ sorted_arr = 0
    /\ n = 0
    /\ i = 0
    /\ j = 0
    /\ swapped = FALSE
    /\ steps = 0
    /\ out = <<>>
    /\ stack = <<>>

Next ==
    \/ BubbleSort_Call
    \/ BubbleSort_Outer
    \/ BubbleSort_Inner
    \/ BubbleSort_Check
    \/ BubbleSort_Return
    \/ BubbleSortWithSteps_Call
    \/ BubbleSortWithSteps_Outer
    \/ BubbleSortWithSteps_Inner
    \/ BubbleSortWithSteps_Check
    \/ BubbleSortWithSteps_Return
    \/ MergeSort_Call
    \/ MergeSort_Base
    \/ MergeSort_Split
    \/ MergeSort_CallRight
    \/ MergeSort_Merge
    \/ MergeSortWithSteps_Call
    \/ MergeSortWithSteps_Base
    \/ MergeSortWithSteps_Split
    \/ MergeSortWithSteps_CallRight
    \/ MergeSortWithSteps_Merge

Spec == Init /\ [][Next]_vars

----------------------------------------------------------------------------
(* Vocabulary of the properties *)

Done(f) == ret[f].done

Elements(s) == {s[k] : k \in 1..Len(s)}

\* The elements of the caller's list carry distinct tags, so r is a
\* permutation of s exactly when it has the same length and the same elements.
IsPermutation(r, s) == Len(r) = Len(s) /\ Elements(r) = Elements(s)

Ordered(r, rev) ==
    \A k \in 1..(Len(r) - 1) :
        IF rev THEN r[k].key >= r[k + 1].key ELSE r[k].key <= r[k + 1].key

\* Equal keys appear in the order of their original positions.
Stable(r) ==
    \A a, b \in 1..Len(r) :
        (a < b /\ r[a].key = r[b].key) => r[a].tag < r[b].tag

HasEqualKeys(s) == \E a, b \in 1..Len(s) : a < b /\ s[a].key = s[b].key

CountKind(o, kind) == Len(SelectSeq(o, LAMBDA e : e.kind = kind))

\* The step indices printed by a traced bubble sort, in the order printed.
StepIndices(o) ==
    LET sw == SelectSeq(o, LAMBDA e : e.kind = "swap")
    IN  [k \in 1..Len(sw) |-> sw[k].step]

RECURSIVE CeilLog2(_)
CeilLog2(m) == IF m <= 1 THEN 0 ELSE 1 + CeilLog2((m + 1) \div 2)

RECURSIVE Pow2(_)
Pow2(k) == IF k = 0 THEN 1 ELSE 2 * Pow2(k - 1)

IsPowerOfTwo(m) == m >= 1 /\ Pow2(CeilLog2(m)) = m

----------------------------------------------------------------------------
(* Properties *)

\* C1: the list returned by bubble_sort and the list returned by merge_sort
\* are permutations of the caller's list: same length, same elements.
C1_Permutation ==
    \A f \in {"bubble_sort", "merge_sort"} :
        Done(f) => IsPermutation(ret[f].list, input)

C1_Witness ==
    /\ Done("bubble_sort") /\ Done("merge_sort")
    /\ Len(input) >= 3
    /\ ret["bubble_sort"].list # input
    /\ ret["merge_sort"].list # input

\* C2: the list returned by bubble_sort and by merge_sort is ordered for the
\* requested direction, and so is the list bubble_sort is about to return,
\* whether it left the loop by the early break or by exhausting the passes.
C2_Ordered ==
    /\ \A f \in {"bubble_sort", "merge_sort"} :
           Done(f) => Ordered(ret[f].list, reverse)
    /\ (fn = "bubble_sort" /\ pc = "return")
           => Ordered(heap[sorted_arr], reverse)

\* bubble_sort stops early, after a pass without a swap that followed a pass
\* with one.
C2_Witness ==
    /\ fn = "bubble_sort" /\ pc = "return"
    /\ ~swapped
    /\ i >= 1 /\ i < n - 1
    /\ heap[sorted_arr] # input

\* C3: bubble_sort and merge_sort are stable in both directions: elements
\* with equal keys are returned in the order of their original positions.
C3_Stable ==
    \A f \in {"bubble_sort", "merge_sort"} : Done(f) => Stable(ret[f].list)

C3_Witness ==
    /\ Done("bubble_sort") /\ Done("merge_sort")
    /\ reverse
    /\ HasEqualKeys(input)
    /\ ret["bubble_sort"].list # input

\* C4: at every step of every call the caller's list has the content it had
\* before the call, and every function returns a list object other than the
\* caller's.
C4_InputUnchanged ==
    /\ heap[ArrRef] = input
    /\ \A f \in Fns : Done(f) => ret[f].ref # ArrRef

\* A traced bubble sort has exchanged elements of its working list, after a
\* merge sort has returned.
C4_Witness ==
    /\ fn = "bubble_sort_with_steps" /\ swapped
    /\ heap[sorted_arr] # input
    /\ Done("merge_sort")

\* C5: bubble_sort and merge_sort return the same list, element by element,
\* tags included.
C5_Agreement ==
    (Done("bubble_sort") /\ Done("merge_sort"))
        => ret["bubble_sort"].list = ret["merge_sort"].list

C5_Witness ==
    /\ Done("bubble_sort") /\ Done("merge_sort")
    /\ HasEqualKeys(input)
    /\ Len(input) >= 3
    /\ ret["merge_sort"].list # input

\* C6: bubble_sort_with_steps returns the list bubble_sort returns, and
\* merge_sort_with_steps returns the list merge_sort returns.
C6_TraceSameResult ==
    /\ (Done("bubble_sort") /\ Done("bubble_sort_with_steps"))
           => ret["bubble_sort_with_steps"].list = ret["bubble_sort"].list
    /\ (Done("merge_sort") /\ Done("merge_sort_with_steps"))
           => ret["merge_sort_with_steps"].list = ret["merge_sort"].list

C6_Witness ==
    /\ \A f \in Fns : Done(f)
    /\ reverse
    /\ ret["bubble_sort_with_steps"].list # input
    /\ ret["merge_sort_with_steps"].list # input

\* C7: on a list already in ascending order, of length len >= 1, sorted
\* ascending, bubble_sort_with_steps returns len - 1 steps, prints no swap
\* and makes exactly one pass; on a list of length 0 or 1 it returns 0 steps.
C7_SortedInputOnePass ==
    LET r == ret["bubble_sort_with_steps"] IN
    /\ (Done("bubble_sort_with_steps") /\ ~reverse /\ Ordered(input, FALSE)
            /\ Len(input) >= 1)
           => /\ r.steps = Len(input) - 1
              /\ CountKind(r.out, "swap") = 0
              /\ CountKind(r.out, "pass") = 1
              /\ CountKind(r.out, "no_swaps") = 1
    /\ (Done("bubble_sort_with_steps") /\ Len(input) <= 1) => r.steps = 0

C7_Witness ==
    /\ Done("bubble_sort_with_steps")
    /\ ~reverse
    /\ Ordered(input, FALSE)
    /\ Len(input) >= 3
    /\ ret["bubble_sort_with_steps"].steps = Len(input) - 1

\* C8 as stated: on a list whose length len is a power of two,
\* merge_sort_with_steps returns an operation count of len - 1.
C8_Original ==
    (Done("merge_sort_with_steps") /\ IsPowerOfTwo(Len(input)))
        => ret["merge_sort_with_steps"].steps = Len(input) - 1

\* C8: on a list whose length len is a power of two, merge_sort_with_steps
\* returns an operation count of len * log2(len).
C8_PowerOfTwoOps ==
    (Done("merge_sort_with_steps") /\ IsPowerOfTwo(Len(input)))
        => ret["merge_sort_with_steps"].steps
               = Len(input) * CeilLog2(Len(input))

C8_Witness ==
    /\ Done("merge_sort_with_steps")
    /\ Len(input) = 4
    /\ ret["merge_sort_with_steps"].steps = 8

\* The count of a list of length len: len * ceil(log2 len) less the
\* placements saved by the merges of unequal depth.
OpsOfLen(len) ==
    IF len = 0 THEN 0 ELSE len * CeilLog2(len) - Pow2(CeilLog2(len)) + len

\* C9: the operation count merge_sort_with_steps returns is at most
\* len * ceil(log2 len), is 0 when len <= 1, and is a function of len alone,
\* whatever the elements, their order and the direction.
C9_OpsBoundByLength ==
    Done("merge_sort_with_steps") =>
        LET ops == ret["merge_sort_with_steps"].steps
            len == Len(input)
        IN  /\ ops <= len * CeilLog2(len)
            /\ (len <= 1 => ops = 0)
            /\ ops = OpsOfLen(len)

C9_Witness ==
    /\ Done("merge_sort_with_steps")
    /\ Len(input) = 3
    /\ reverse
    /\ ret["merge_sort_with_steps"].steps = 5
    /\ ret["merge_sort_with_steps"].list # input

=============================================================================
